---- MODULE Spec2Model ----
(***************************************************************************)
(* Flow accumulation from a D8 direction raster                            *)
(* (include/richdem/methods/flow_accumulation.hpp,                         *)
(* flow_accumulation_from_d8), modelled as a state machine: the            *)
(* dependency scan, the search for sources, the propagation loop over the  *)
(* ready queue and the no-data sweep.                                      *)
(*                                                                         *)
(* The union-find structure of                                             *)
(* include/richdem/common/disjoint_dense_int_set.hpp (DisjointDenseIntSet) *)
(* with one action per public operation, and Perimeter and BucketFill of   *)
(* tests/wei2018-test/perlin.h.  Each program has its own specification;   *)
(* the variables of the others stay at their idle values.                  *)
(***************************************************************************)
EXTENDS Integers, Sequences, FiniteSets, TLC

VARIABLES
  width,      \* d8_in.width()
  height,     \* d8_in.height()
  no_data,    \* d8_in.noData(), a value of type T
  d8_in,      \* the direction raster, indexed 0 .. size-1 (row major)
  accum,      \* Array2D<uint32_t> accum
  deps,       \* Array2D<int8_t> deps
  q,          \* std::queue<int32_t> q
  pc,         \* position in the function body
  enq,        \* history: how often each cell was put on q
  dec,        \* history: how often each cell's count was decremented
  inc_src,    \* history: the cells whose scan incremented a count
  deq,        \* history: how often each cell was dequeued
  at_deq,     \* history: each dequeued cell's register right after its dequeue
  prop_start, \* history: accum, deps and q when the propagation loop starts
  parent,     \* DisjointDenseIntSet: std::vector<uint32_t> parent, indexed from 0
  rank,       \* DisjointDenseIntSet: std::vector<uint32_t> rank, indexed from 0
  ref,        \* history: each id's class under the pairs unionSet has joined
  ret,        \* how the last call on the DisjointDenseIntSet ended
  arr,              \* Perimeter: const Array2D<T> &arr
  perim_type,       \* Perimeter: const PerimType perim_type
  cell_edges,       \* Perimeter: unsigned int cell_edges
  vertical_edges,   \* Perimeter: unsigned int vertical_edges
  horizontal_edges, \* Perimeter: unsigned int horizontal_edges
  check_raster,     \* BucketFill: const Array2D<T> &check_raster
  set_raster,       \* BucketFill: Array2D<U> &set_raster
  set_width,        \* BucketFill: set_raster.width()
  set_height,       \* BucketFill: set_raster.height()
  seeds,            \* BucketFill: std::vector<size_t> &seeds
  topo,             \* BucketFill: template parameter Topology topo
  set_start,        \* history: set_raster when BucketFill is called
  seeds_start       \* history: seeds when BucketFill is called

\* the variables of the DisjointDenseIntSet
dsuVars == <<parent, rank, ref, ret>>

\* the variables of Perimeter
perimVars == <<arr, perim_type, cell_edges, vertical_edges, horizontal_edges>>

\* the variables of BucketFill
fillVars == <<check_raster, set_raster, set_width, set_height, seeds, topo,
              set_start, seeds_start>>

\* the variables that flow_accumulation_from_d8 does not touch
otherThanFlow == <<dsuVars, perimVars, fillVars>>

\* the variables of flow_accumulation_from_d8 alone
flowVars == <<d8_in, accum, deps, q, enq, dec, deq, inc_src, at_deq, prop_start>>

vars == <<width, height, no_data, d8_in, accum, deps, q, pc,
          enq, dec, deq, inc_src, at_deq, prop_start, dsuVars, perimVars,
          fillVars>>

----------------------------------------------------------------------------
(* Bounds of the checked inputs *)

MaxWidth == 5

MaxHeight == 3

MaxCells == 15

\* the ids of a DisjointDenseIntSet are 0 .. MaxIds-1; MaxIds is passed too,
\* as an id that never exists
MaxIds == 3

\* the calls that would raise a rank above MaxRank are left out
MaxRank == 2

\* Perimeter is run on rasters of at most MaxPerimCells cells
MaxPerimCells == 9

\* BucketFill is run on rasters of at most MaxFillCells cells, with at most
\* MaxSeeds seeds
MaxFillCells == 4

MaxSeeds == 2

----------------------------------------------------------------------------
(* Constants of the library *)

NO_FLOW == 0

ACCUM_NO_DATA == -1

d8x == <<0, -1, -1, 0, 1, 1, 1, 0, -1>>

d8y == <<0, 0, -1, -1, -1, 0, 1, 1, 1>>

\* A uint32_t is held as its two 16-bit halves <<high, low>>, the value being
\* high * 65536 + low (the checker's integers end below 2^32).
\* conversion of an integer value to uint32_t, modulo 2^32
ToUint32(v) == <<(v \div 65536) % 65536, v % 65536>>

\* a + b in uint32_t, modulo 2^32
Add32(a, b) ==
  <<(a[1] + b[1] + ((a[2] + b[2]) \div 65536)) % 65536, (a[2] + b[2]) % 65536>>

\* conversion of an integer value to int8_t
ToInt8(v) == ((v + 128) % 256) - 128

----------------------------------------------------------------------------
(* Array2D geometry, for a raster of w columns and h rows *)

size(w, h) == w * h

Cells(w, h) == 0 .. (size(w, h) - 1)

xyToI(w, px, py) == py * w + px

iToX(w, i) == i % w

iToY(w, i) == i \div w

inGrid(w, h, px, py) == px >= 0 /\ py >= 0 /\ px < w /\ py < h

isEdgeCell(w, h, px, py) == px = 0 \/ py = 0 \/ px = w - 1 \/ py = h - 1

nshift(w, n) == d8y[n + 1] * w + d8x[n + 1]

isNoData(grid, nd, i) == grid[i] = nd

----------------------------------------------------------------------------
(* The direction rasters the runs start from *)

\* the kinds of input raster, <<no-data value, kind of border>>: uint8 rasters
\* (no-data value 255) with a border of NO_FLOW cells, of no-data cells or of
\* cells routing inward, and signed rasters (no-data value -1) with a border
\* of no-data cells
InputKinds ==
  {<<255, "noflow">>, <<255, "nodata">>, <<255, "inward">>,
   <<ACCUM_NO_DATA, "nodata">>}

\* a value of type T that is neither NO_FLOW nor one of the 8 direction codes
InvalidCode == 9

\* uint8 rasters whose border cells all hold InvalidCode; the function reads
\* the direction of no border cell
InvalidInputKinds == {<<255, "invalid">>}

Clamp(v, lo, hi) == IF v < lo THEN lo ELSE IF v > hi THEN hi ELSE v

\* the direction code of the offset (dx, dy)
DirCode(dx, dy) == CHOOSE n \in 0 .. 8 : d8x[n + 1] = dx /\ d8y[n + 1] = dy

\* "inward": a border cell routes to the nearest interior cell; in a raster
\* too small to have an interior, every cell routes to its right neighbour
\* (a chain along each row) and the last one of a row is NO_FLOW
InwardCode(w, h, px, py) ==
  IF w >= 3 /\ h >= 3
    THEN DirCode(Clamp(px, 1, w - 2) - px, Clamp(py, 1, h - 2) - py)
    ELSE IF px + 1 < w THEN 5 ELSE NO_FLOW

BorderValue(kind, w, h, nd, i) ==
  CASE kind = "noflow" -> NO_FLOW
    [] kind = "nodata" -> nd
    [] kind = "inward" -> InwardCode(w, h, iToX(w, i), iToY(w, i))
    [] kind = "invalid" -> InvalidCode

InteriorCells(w, h) ==
  {i \in Cells(w, h) : ~isEdgeCell(w, h, iToX(w, i), iToY(w, i))}

\* a raster from the values of its interior cells and the kind of its border
MakeGrid(w, h, nd, kind, inner) ==
  [i \in Cells(w, h) |->
     IF isEdgeCell(w, h, iToX(w, i), iToY(w, i))
       THEN BorderValue(kind, w, h, nd, i)
       ELSE inner[i]]

Zeros(w, h) == [i \in Cells(w, h) |-> 0]

\* no call on a DisjointDenseIntSet is made
NoDSU ==
  /\ parent = <<>>
  /\ rank = <<>>
  /\ ref = <<>>
  /\ ret = <<>>

\* no call of flow_accumulation_from_d8 is made
NoFlow ==
  /\ d8_in = <<>>
  /\ accum = <<>>
  /\ deps = <<>>
  /\ q = <<>>
  /\ enq = <<>>
  /\ dec = <<>>
  /\ deq = <<>>
  /\ inc_src = {}
  /\ at_deq = <<>>
  /\ prop_start = <<>>

\* no call of Perimeter is made
NoPerimeter ==
  /\ arr = <<>>
  /\ perim_type = "none"
  /\ cell_edges = 0
  /\ vertical_edges = 0
  /\ horizontal_edges = 0

\* no call of BucketFill is made
NoBucketFill ==
  /\ check_raster = <<>>
  /\ set_raster = <<>>
  /\ set_width = 0
  /\ set_height = 0
  /\ seeds = <<>>
  /\ topo = "none"
  /\ set_start = <<>>
  /\ seeds_start = <<>>

Init ==
  /\ NoDSU
  /\ NoPerimeter
  /\ NoBucketFill
  /\ width \in 1 .. MaxWidth
  /\ height \in 1 .. MaxHeight
  /\ size(width, height) <= MaxCells
  /\ \E kind \in InputKinds :
       /\ no_data = kind[1]
       /\ \E inner \in [InteriorCells(width, height) -> (0 .. 8) \cup {no_data}] :
            d8_in = MakeGrid(width, height, no_data, kind[2], inner)
  /\ accum = [i \in Cells(width, height) |-> ToUint32(0)]
  /\ deps = Zeros(width, height)
  /\ q = <<>>
  /\ pc = "deps"
  /\ enq = Zeros(width, height)
  /\ dec = Zeros(width, height)
  /\ inc_src = {}
  /\ deq = Zeros(width, height)
  /\ at_deq = [i \in Cells(width, height) |-> ToUint32(0)]
  /\ prop_start = [accum |-> [i \in Cells(width, height) |-> ToUint32(0)],
                   deps |-> Zeros(width, height), q |-> <<>>]

\* the runs on rasters that hold a direction code outside the valid domain
InitInvalidCode ==
  /\ NoDSU
  /\ NoPerimeter
  /\ NoBucketFill
  /\ width \in 1 .. MaxWidth
  /\ height \in 1 .. MaxHeight
  /\ size(width, height) <= MaxCells
  /\ \E kind \in InvalidInputKinds :
       /\ no_data = kind[1]
       /\ \E inner \in [InteriorCells(width, height) -> (0 .. 8) \cup {no_data}] :
            d8_in = MakeGrid(width, height, no_data, kind[2], inner)
  /\ accum = [i \in Cells(width, height) |-> ToUint32(0)]
  /\ deps = Zeros(width, height)
  /\ q = <<>>
  /\ pc = "deps"
  /\ enq = Zeros(width, height)
  /\ dec = Zeros(width, height)
  /\ inc_src = {}
  /\ deq = Zeros(width, height)
  /\ at_deq = [i \in Cells(width, height) |-> ToUint32(0)]
  /\ prop_start = [accum |-> [i \in Cells(width, height) |-> ToUint32(0)],
                   deps |-> Zeros(width, height), q |-> <<>>]

----------------------------------------------------------------------------
(* The two scans over the interior cells, y = 1 .. height-2 and             *)
(* x = 1 .. width-2                                                         *)

ScanDone(py) == py >= height - 1 \/ width < 3

NextX(px) == IF px + 1 < width - 1 THEN px + 1 ELSE 1

NextY(px, py) == IF px + 1 < width - 1 THEN py ELSE py + 1

\* DepsTargets without the test for NO_FLOW
DepsTargets_NoFlowNotSkipped(px, py) ==
  LET ci == xyToI(width, px, py)
      n  == d8_in[ci]
  IN IF isNoData(d8_in, no_data, ci) THEN {}
     ELSE IF ~inGrid(width, height, px + d8x[n + 1], py + d8y[n + 1]) THEN {}
     ELSE {ci + nshift(width, n)}

\* the cells whose count the scan of cell (px, py) increments: none or one
DepsTargets(px, py) ==
  LET ci == xyToI(width, px, py)
      n  == d8_in[ci]
  IN IF isNoData(d8_in, no_data, ci) THEN {}
     ELSE IF n = NO_FLOW THEN {}
     ELSE IF ~inGrid(width, height, px + d8x[n + 1], py + d8y[n + 1]) THEN {}
     ELSE {ci + nshift(width, n)}

RECURSIVE DepsFrom(_, _, _)
\* the counts, and the cells that caused an increment, after the dependency
\* scan has gone from cell (px, py) to the end; st = [deps, src]
DepsFrom(px, py, st) ==
  IF ScanDone(py) THEN st
  ELSE IF DepsTargets(px, py) = {}
    THEN DepsFrom(NextX(px), NextY(px, py), st)
    ELSE LET ni == CHOOSE t \in DepsTargets(px, py) : TRUE
         IN DepsFrom(NextX(px), NextY(px, py),
                     [deps |-> [st.deps EXCEPT ![ni] = ToInt8(@ + 1)],
                      src  |-> st.src \cup {xyToI(width, px, py)}])

\* the dependency scan: every interior cell, in row-major order
DepsScan ==
  /\ pc = "deps"
  /\ LET st == DepsFrom(1, 1, [deps |-> deps, src |-> inc_src])
     IN /\ deps' = st.deps
        /\ inc_src' = st.src
  /\ pc' = "sources"
  /\ UNCHANGED <<width, height, no_data, d8_in, accum, q, enq, dec, deq,
                 at_deq, prop_start>>
  /\ UNCHANGED otherThanFlow

\* IsSource without the no-data test
IsSource_NoDataNotTested(px, py) ==
  deps[xyToI(width, px, py)] = 0

\* IsSource without the test of the dependency count
IsSource_CountNotTested(px, py) ==
  ~isNoData(d8_in, no_data, xyToI(width, px, py))

\* whether the scan for sources puts cell (px, py) on the queue
IsSource(px, py) ==
  /\ deps[xyToI(width, px, py)] = 0
  /\ ~isNoData(d8_in, no_data, xyToI(width, px, py))

RECURSIVE SourcesFrom(_, _, _)
\* the queue after the scan for sources has gone from cell (px, py) to the end
SourcesFrom(px, py, queue) ==
  IF ScanDone(py) THEN queue
  ELSE SourcesFrom(NextX(px), NextY(px, py),
                   IF IsSource(px, py) THEN Append(queue, xyToI(width, px, py))
                                       ELSE queue)

----------------------------------------------------------------------------
(* The propagation loop, while (!q.empty())                                 *)

\* PropTargets without the edge-cell test on the neighbour
PropTargets_EdgeNotTested(ci) ==
  LET n  == d8_in[ci]
      ni == ci + nshift(width, n)
      nx == iToX(width, ni)
      ny == iToY(width, ni)
  IN IF n = NO_FLOW THEN {}
     ELSE IF \/ ~inGrid(width, height, nx, ny)
             \/ isNoData(d8_in, no_data, ni) THEN {}
     ELSE {ni}

\* PropTargets without the no-data test on the neighbour
PropTargets_NoDataNotTested(ci) ==
  LET n  == d8_in[ci]
      ni == ci + nshift(width, n)
      nx == iToX(width, ni)
      ny == iToY(width, ni)
  IN IF n = NO_FLOW THEN {}
     ELSE IF \/ ~inGrid(width, height, nx, ny)
             \/ isEdgeCell(width, height, nx, ny) THEN {}
     ELSE {ni}

\* the cells that the dequeued cell ci forwards its accumulation to: none or one
PropTargets(ci) ==
  LET n  == d8_in[ci]
      ni == ci + nshift(width, n)
      nx == iToX(width, ni)
      ny == iToY(width, ni)
  IN IF n = NO_FLOW THEN {}
     ELSE IF \/ ~inGrid(width, height, nx, ny)
             \/ isEdgeCell(width, height, nx, ny)
             \/ isNoData(d8_in, no_data, ni) THEN {}
     ELSE {ni}

RemoveAt(s, k) == SubSeq(s, 1, k - 1) \o SubSeq(s, k + 1, Len(s))

\* Ready for a loop that puts every target on the queue
Ready_Always(d) == d = d

\* Ready that takes a count of one, not yet decremented to zero, as ready too
Ready_OneLeft(d) == d = 0 \/ d = 1

\* whether the decremented count of a target puts the target on the queue
Ready(d) == d = 0

\* one iteration of the loop body on st = [accum, deps, q], taking the k-th
\* element of the queue (the code takes the first, q.front())
PropStep(st, k) ==
  LET ci      == st.q[k]
      q1      == RemoveAt(st.q, k)
      acc1    == [st.accum EXCEPT ![ci] = Add32(@, ToUint32(1))]
      c_accum == acc1[ci]
      targets == PropTargets(ci)
  IN IF targets = {}
       THEN [accum |-> acc1, deps |-> st.deps, q |-> q1]
       ELSE LET ni   == CHOOSE t \in targets : TRUE
                dep2 == [st.deps EXCEPT ![ni] = ToInt8(@ - 1)]
            IN [accum |-> [acc1 EXCEPT ![ni] = Add32(@, c_accum)],
                deps  |-> dep2,
                q     |-> IF Ready(dep2[ni]) THEN Append(q1, ni) ELSE q1]

RECURSIVE RunFifo(_)
\* the loop run to its end, always taking the front of the queue
RunFifo(st) == IF st.q = <<>> THEN st ELSE RunFifo(PropStep(st, 1))

Occurrences(queue, i) == Cardinality({k \in 1 .. Len(queue) : queue[k] = i})

\* the scan for sources: every interior cell, in row-major order
FindSources ==
  /\ pc = "sources"
  /\ q' = SourcesFrom(1, 1, q)
  /\ enq' = [i \in Cells(width, height) |-> enq[i] + Occurrences(q', i)]
  /\ pc' = "prop"
  /\ prop_start' = [accum |-> accum, deps |-> deps, q |-> q']
  /\ UNCHANGED <<width, height, no_data, d8_in, accum, deps, dec, deq,
                 inc_src, at_deq>>
  /\ UNCHANGED otherThanFlow

Dequeue(k) ==
  /\ pc = "prop"
  /\ k \in 1 .. Len(q)
  /\ LET st == PropStep([accum |-> accum, deps |-> deps, q |-> q], k)
     IN /\ accum' = st.accum
        /\ deps' = st.deps
        /\ q' = st.q
        /\ deq' = [deq EXCEPT ![q[k]] = @ + 1]
        /\ at_deq' = [at_deq EXCEPT ![q[k]] = Add32(accum[q[k]], ToUint32(1))]
        /\ dec' = [i \in Cells(width, height) |->
                     IF i \in PropTargets(q[k]) THEN dec[i] + 1 ELSE dec[i]]
        /\ enq' = [i \in Cells(width, height) |->
                     IF i \in PropTargets(q[k]) /\ Len(st.q) = Len(q)
                       THEN enq[i] + 1 ELSE enq[i]]
  /\ UNCHANGED <<width, height, no_data, d8_in, pc, inc_src, prop_start>>
  /\ UNCHANGED otherThanFlow

\* the code: ci = q.front(); q.pop()
Propagate == Dequeue(1)

\* a scheduler free to take any ready cell
PropagateAnyOrder == \E k \in 1 .. Len(q) : Dequeue(k)

----------------------------------------------------------------------------
(* The sweep over the no-data cells, and the return                         *)

\* the value the sweep writes into the no-data cells
SweepValue == ToUint32(no_data)

\* the loop ends on the empty queue; the sweep; the return
Finalize ==
  /\ pc = "prop"
  /\ q = <<>>
  /\ accum' = [i \in Cells(width, height) |->
                 IF isNoData(d8_in, no_data, i) THEN SweepValue ELSE accum[i]]
  /\ pc' = "done"
  /\ UNCHANGED <<width, height, no_data, d8_in, deps, q, enq, dec,
                 deq, inc_src, at_deq, prop_start>>
  /\ UNCHANGED otherThanFlow

Next ==
  \/ DepsScan
  \/ FindSources
  \/ Propagate
  \/ Finalize

Spec == Init /\ [][Next]_vars

NextAnyOrder ==
  \/ DepsScan
  \/ FindSources
  \/ PropagateAnyOrder
  \/ Finalize

SpecAnyOrder == Init /\ [][NextAnyOrder]_vars

SpecInvalidCode == InitInvalidCode /\ [][Next]_vars

----------------------------------------------------------------------------
(* DisjointDenseIntSet.  A vector is a function on 0 .. size-1; st is the   *)
(* pair of vectors [parent, rank].                                         *)

\* std::vector::size()
vsize(v) == Cardinality(DOMAIN v)

\* the vector of n ids in which every id is mapped to itself
Identity(n) == [i \in 0 .. (n - 1) |-> i]

\* checkSize(newN): create the sets up to newN that do not exist yet
checkSize(st, newN) ==
  IF newN < vsize(st.rank) THEN st
  ELSE LET old_size == vsize(st.rank)
       IN [rank   |-> [i \in 0 .. newN |->
                         IF i < vsize(st.rank) THEN st.rank[i] ELSE 0],
           parent |-> [i \in 0 .. newN |->
                         IF i >= old_size THEN i
                         ELSE IF i < vsize(st.parent) THEN st.parent[i] ELSE 0]]

\* findSetRec that returns the representative and assigns no parent
findSetRec_WithoutCompression(p, n, fuel) ==
  LET RECURSIVE Up(_, _)
      Up(m, f) == IF p[m] = m THEN m
                  ELSE IF f = 0 THEN -1 ELSE Up(p[m], f - 1)
  IN [parent |-> p, value |-> Up(n, fuel)]

RECURSIVE findSetRec(_, _, _)
\* the recursion of findSet on an existing id: the representative and the
\* vector after `parent[n] = findSet(parent[n])` on the way back.  A chain
\* longer than the number of ids is a cycle: the recursion never returns
\* (value -1) and no assignment is reached.
findSetRec(p, n, fuel) ==
  IF p[n] = n THEN [parent |-> p, value |-> n]
  ELSE IF fuel = 0 THEN [parent |-> p, value |-> -1]
  ELSE LET r == findSetRec(p, p[n], fuel - 1)
       IN IF r.value = -1 THEN [parent |-> p, value |-> -1]
          ELSE [parent |-> [r.parent EXCEPT ![n] = r.value], value |-> r.value]

\* findSet(n): kind is "ok", "runtime_error" (thrown) or "no_return"
findSet(p, n) ==
  IF n >= vsize(p) THEN [kind |-> "runtime_error", parent |-> p, value |-> -1]
  ELSE LET r == findSetRec(p, n, vsize(p))
       IN IF r.value = -1
            THEN [kind |-> "no_return", parent |-> p, value |-> -1]
            ELSE [kind |-> "ok", parent |-> r.parent, value |-> r.value]

\* unionSet from the swap on, for two different representatives ra and rb
linkRoots(st, ra, rb) ==
  LET swap  == st.rank[ra] > st.rank[rb]
      roota == IF swap THEN rb ELSE ra
      rootb == IF swap THEN ra ELSE rb
  IN [parent |-> [st.parent EXCEPT ![roota] = rootb],
      rank   |-> IF st.rank[roota] = st.rank[rootb]
                   THEN [st.rank EXCEPT ![roota] = @ + 1]
                   ELSE st.rank]

\* unionSet that sets the parent of a itself, not of its representative
unionSet_LinksArgument(st, a, b) ==
  LET fa == findSet(st.parent, a)
  IN IF fa.kind /= "ok"
       THEN [kind |-> fa.kind, parent |-> fa.parent, rank |-> st.rank]
       ELSE LET fb == findSet(fa.parent, b)
            IN IF fb.kind /= "ok"
                 THEN [kind |-> fb.kind, parent |-> fb.parent, rank |-> st.rank]
                 ELSE IF fa.value = fb.value
                   THEN [kind |-> "ok", parent |-> fb.parent, rank |-> st.rank]
                   ELSE [kind |-> "ok",
                         parent |-> [fb.parent EXCEPT ![a] = fb.value],
                         rank |-> st.rank]

\* unionSet(a, b)
unionSet(st, a, b) ==
  LET fa == findSet(st.parent, a)
  IN IF fa.kind /= "ok"
       THEN [kind |-> fa.kind, parent |-> fa.parent, rank |-> st.rank]
       ELSE LET fb == findSet(fa.parent, b)
            IN IF fb.kind /= "ok"
                 THEN [kind |-> fb.kind, parent |-> fb.parent, rank |-> st.rank]
                 ELSE IF fa.value = fb.value
                   THEN [kind |-> "ok", parent |-> fb.parent, rank |-> st.rank]
                   ELSE LET l == linkRoots([parent |-> fb.parent,
                                            rank |-> st.rank],
                                           fa.value, fb.value)
                        IN [kind |-> "ok", parent |-> l.parent, rank |-> l.rank]

\* mergeAintoB(a, b)
mergeAintoB(st, a, b) ==
  LET s1 == checkSize(checkSize(st, a), b)
  IN [parent |-> [s1.parent EXCEPT ![a] = b],
      rank   |-> IF s1.rank[a] = s1.rank[b]
                   THEN [s1.rank EXCEPT ![b] = @ + 1]
                   ELSE IF s1.rank[a] > s1.rank[b]
                     THEN [s1.rank EXCEPT ![b] = s1.rank[a] + 1]
                     ELSE s1.rank]

\* sameSet(a, b), findSet(a) == findSet(b), with first the operand that is
\* evaluated first (the language leaves the order open)
sameSet(p, first, second) ==
  LET f1 == findSet(p, first)
  IN IF f1.kind /= "ok"
       THEN [kind |-> f1.kind, parent |-> f1.parent, same |-> FALSE]
       ELSE LET f2 == findSet(f1.parent, second)
            IN IF f2.kind /= "ok"
                 THEN [kind |-> f2.kind, parent |-> f2.parent, same |-> FALSE]
                 ELSE [kind |-> "ok", parent |-> f2.parent,
                       same |-> f1.value = f2.value]

\* how a call ended: the operation, "ok" / "runtime_error" / "no_return", the
\* id returned by findSet (else -1) and the answer of sameSet (else FALSE)
Ended(op, kind, id, same) == [op |-> op, kind |-> kind, id |-> id, same |-> same]

\* the ids that calls are made with
Ids == 0 .. MaxIds

\* the ids that makeSet and mergeAintoB, which create sets, are called with
NewIds == 0 .. (MaxIds - 1)

\* the classes after the pair (a, b) is joined
Joined(classes, a, b) ==
  LET m == IF classes[a] < classes[b] THEN classes[a] ELSE classes[b]
  IN [i \in DOMAIN classes |->
        IF classes[i] = classes[a] \/ classes[i] = classes[b] THEN m
        ELSE classes[i]]

\* the classes with the ids up to n - 1, the new ones each in a class of its own
Extended(classes, n) ==
  [i \in 0 .. (n - 1) |-> IF i \in DOMAIN classes THEN classes[i] ELSE i]

\* a call can be made: the object exists and no earlier call failed to return
Callable == pc = "dsu" /\ ret.kind /= "no_return"

\* DisjointDenseIntSet(N)
InitDSU ==
  /\ NoFlow
  /\ NoPerimeter
  /\ NoBucketFill
  /\ width = 0
  /\ height = 0
  /\ no_data = 0
  /\ pc = "dsu"
  /\ \E N \in 0 .. MaxIds :
       /\ rank = [i \in 0 .. (N - 1) |-> 0]
       /\ parent = Identity(N)
       /\ ref = Identity(N)
  /\ ret = Ended("none", "ok", -1, FALSE)

CallFindSet(n) ==
  /\ Callable
  /\ LET r == findSet(parent, n)
     IN /\ parent' = r.parent
        /\ ret' = Ended("findSet", r.kind, r.value, FALSE)
  /\ UNCHANGED <<rank, ref>>
  /\ UNCHANGED <<width, height, no_data, pc, flowVars, perimVars, fillVars>>

CallUnionSet(a, b) ==
  /\ Callable
  /\ LET r == unionSet([parent |-> parent, rank |-> rank], a, b)
     IN /\ \A i \in DOMAIN r.rank : r.rank[i] <= MaxRank
        /\ parent' = r.parent
        /\ rank' = r.rank
        /\ ret' = Ended("unionSet", r.kind, -1, FALSE)
        /\ ref' = IF a \in DOMAIN parent /\ b \in DOMAIN parent /\ r.kind = "ok"
                    THEN Joined(ref, a, b) ELSE ref
  /\ UNCHANGED <<width, height, no_data, pc, flowVars, perimVars, fillVars>>

CallSameSet(a, b) ==
  /\ Callable
  /\ \E order \in {"ab", "ba"} :
       LET r == IF order = "ab" THEN sameSet(parent, a, b)
                                ELSE sameSet(parent, b, a)
       IN /\ parent' = r.parent
          /\ ret' = Ended("sameSet", r.kind, -1, r.same)
  /\ UNCHANGED <<rank, ref>>
  /\ UNCHANGED <<width, height, no_data, pc, flowVars, perimVars, fillVars>>

CallMakeSet(n) ==
  /\ Callable
  /\ LET s1 == checkSize([parent |-> parent, rank |-> rank], n)
     IN /\ parent' = s1.parent
        /\ rank' = s1.rank
        /\ ref' = Extended(ref, vsize(s1.parent))
  /\ ret' = Ended("makeSet", "ok", -1, FALSE)
  /\ UNCHANGED <<width, height, no_data, pc, flowVars, perimVars, fillVars>>

CallMergeAintoB(a, b) ==
  /\ Callable
  /\ LET s1 == mergeAintoB([parent |-> parent, rank |-> rank], a, b)
     IN /\ \A i \in DOMAIN s1.rank : s1.rank[i] <= MaxRank
        /\ parent' = s1.parent
        /\ rank' = s1.rank
        /\ ref' = Extended(ref, vsize(s1.parent))
  /\ ret' = Ended("mergeAintoB", "ok", -1, FALSE)
  /\ UNCHANGED <<width, height, no_data, pc, flowVars, perimVars, fillVars>>

\* "only unionSet, findSet and sameSet are used"
NextUnionFind ==
  \/ \E n \in Ids : CallFindSet(n)
  \/ \E a \in Ids, b \in Ids : CallUnionSet(a, b)
  \/ \E a \in Ids, b \in Ids : CallSameSet(a, b)

SpecUnionFind == InitDSU /\ [][NextUnionFind]_vars

\* every public operation
NextDSU ==
  \/ \E n \in Ids : CallFindSet(n)
  \/ \E a \in Ids, b \in Ids : CallUnionSet(a, b)
  \/ \E a \in Ids, b \in Ids : CallSameSet(a, b)
  \/ \E n \in NewIds : CallMakeSet(n)
  \/ \E a \in NewIds, b \in NewIds : CallMergeAintoB(a, b)

SpecDSU == InitDSU /\ [][NextDSU]_vars

RECURSIVE MergedFrom(_, _, _)
\* the vectors after mergeAintoB(a, p[a]), mergeAintoB(a+1, p[a+1]), ... up to
\* the last id: the parent vector is then p
MergedFrom(st, p, a) ==
  IF a >= vsize(p) THEN st
  ELSE MergedFrom(mergeAintoB(st, a, p[a]), p, a + 1)

\* DisjointDenseIntSet(N) followed by one mergeAintoB per id, which makes any
\* vector p of N ids the parent vector
InitFindSet ==
  /\ NoFlow
  /\ NoPerimeter
  /\ NoBucketFill
  /\ width = 0
  /\ height = 0
  /\ no_data = 0
  /\ pc = "dsu"
  /\ \E N \in 0 .. MaxIds :
       /\ \E p \in [0 .. (N - 1) -> 0 .. (N - 1)] :
            LET st == MergedFrom([parent |-> Identity(N),
                                  rank |-> [i \in 0 .. (N - 1) |-> 0]], p, 0)
            IN /\ parent = st.parent
               /\ rank = st.rank
       /\ ref = Identity(N)
  /\ ret = Ended("none", "ok", -1, FALSE)

\* calls of findSet on the structure so built
NextFindSet == \E n \in Ids : CallFindSet(n)

SpecFindSet == InitFindSet /\ [][NextFindSet]_vars

----------------------------------------------------------------------------
(* Perimeter(arr, perim_type), tests/wei2018-test/perlin.h                  *)

\* arr.getCellLengthX(), arr.getCellLengthY()
CellLengthX == 1

CellLengthY == 1

\* the cells of arr: 0 for a cell with data, or the no-data value
InitPerimeter ==
  /\ NoFlow
  /\ NoDSU
  /\ NoBucketFill
  /\ width \in 1 .. MaxWidth
  /\ height \in 1 .. MaxHeight
  /\ size(width, height) <= MaxPerimCells
  /\ no_data = ACCUM_NO_DATA
  /\ arr \in [Cells(width, height) -> {0, no_data}]
  /\ perim_type \in {"CELL_COUNT", "SQUARE_EDGE"}
  /\ cell_edges = 0
  /\ vertical_edges = 0
  /\ horizontal_edges = 0
  /\ pc = "perim"

\* CELL_COUNT: what the cell (px, py) adds to cell_edges
CellCount(px, py) ==
  IF \E n \in 1 .. 8 :
       ~inGrid(width, height, px + d8x[n + 1], py + d8y[n + 1])
    THEN 1 ELSE 0

\* SQUARE_EDGE: the directions n of cell (px, py) that lead off the raster or
\* to a no-data cell
OpenSides(px, py) ==
  {n \in 1 .. 8 :
     \/ ~inGrid(width, height, px + d8x[n + 1], py + d8y[n + 1])
     \/ isNoData(arr, no_data,
                 xyToI(width, px + d8x[n + 1], py + d8y[n + 1]))}

\* SQUARE_EDGE: what the cell (px, py) adds to horizontal_edges
HorizontalCount(px, py) ==
  Cardinality({n \in OpenSides(px, py) : d8x[n + 1] = 0})

\* SQUARE_EDGE: what the cell (px, py) adds to vertical_edges
VerticalCount(px, py) ==
  Cardinality({n \in OpenSides(px, py) : d8x[n + 1] /= 0 /\ d8y[n + 1] = 0})

RECURSIVE PerimeterFrom(_, _)
\* the three counters after the loop has gone from cell i to the last cell;
\* cnt = [cell, vertical, horizontal]
PerimeterFrom(i, cnt) ==
  IF i >= size(width, height) THEN cnt
  ELSE IF isNoData(arr, no_data, i) THEN PerimeterFrom(i + 1, cnt)
  ELSE LET px == iToX(width, i)
           py == iToY(width, i)
       IN IF perim_type = "CELL_COUNT"
            THEN PerimeterFrom(i + 1, [cnt EXCEPT !.cell = @ + CellCount(px, py)])
            ELSE PerimeterFrom(i + 1,
                   [cnt EXCEPT !.vertical = @ + VerticalCount(px, py),
                               !.horizontal = @ + HorizontalCount(px, py)])

\* the loop over all cells (a sum reduction, so in any order)
Perimeter ==
  /\ pc = "perim"
  /\ LET cnt == PerimeterFrom(0, [cell |-> cell_edges,
                                  vertical |-> vertical_edges,
                                  horizontal |-> horizontal_edges])
     IN /\ cell_edges' = cnt.cell
        /\ vertical_edges' = cnt.vertical
        /\ horizontal_edges' = cnt.horizontal
  /\ pc' = "perim_done"
  /\ UNCHANGED <<width, height, no_data, arr, perim_type, flowVars, dsuVars,
                 fillVars>>

\* the value returned
PerimeterResult ==
  IF perim_type = "CELL_COUNT" THEN cell_edges
  ELSE horizontal_edges * CellLengthX + vertical_edges * CellLengthY

NextPerimeter == Perimeter

SpecPerimeter == InitPerimeter /\ [][NextPerimeter]_vars

----------------------------------------------------------------------------
(* BucketFill<topo>(check_raster, set_raster, check_value, set_value,       *)
(* seeds), tests/wei2018-test/perlin.h                                     *)

check_value == 1

set_value == 1

\* get_dx_for_topology, get_dy_for_topology, get_nmax_for_topology
d4x == <<0, -1, 0, 1, 0>>

d4y == <<0, 0, -1, 0, 1>>

dx(t) == IF t = "D8" THEN d8x ELSE d4x

dy(t) == IF t = "D8" THEN d8y ELSE d4y

nmax(t) == IF t = "D8" THEN 8 ELSE 4

\* the sequences of at most n elements of S
SeqsUpTo(S, n) == UNION {[1 .. k -> S] : k \in 0 .. n}

\* the dimensions of set_raster: those of check_raster, or others
SetDims(w, h) == {<<w, h>>, <<w + 1, h>>, <<w, h + 1>>}

InitBucketFill ==
  /\ NoFlow
  /\ NoDSU
  /\ NoPerimeter
  /\ no_data = 0
  /\ width \in 1 .. MaxWidth
  /\ height \in 1 .. MaxHeight
  /\ size(width, height) <= MaxFillCells
  /\ check_raster \in [Cells(width, height) -> {0, check_value}]
  /\ \E dims \in SetDims(width, height) :
       /\ set_width = dims[1]
       /\ set_height = dims[2]
       /\ IF dims = <<width, height>>
            THEN set_raster \in [Cells(width, height) -> {0, set_value}]
            ELSE set_raster = Zeros(dims[1], dims[2])
  /\ seeds \in SeqsUpTo(Cells(width, height), MaxSeeds)
  /\ topo \in {"D4", "D8"}
  /\ set_start = set_raster
  /\ seeds_start = seeds
  /\ pc = "fill"

\* the test on the dimensions
BucketFillEnter ==
  /\ pc = "fill"
  /\ pc' = IF width /= set_width \/ height /= set_height
             THEN "fill_thrown" ELSE "fill_loop"
  /\ UNCHANGED <<width, height, no_data, flowVars, dsuVars, perimVars, fillVars>>

\* FillSkips without the test of check_raster
FillSkips_CheckNotTested(c) ==
  set_raster[c] = set_value

\* whether the cell c taken from seeds is passed over
FillSkips(c) ==
  check_raster[c] /= check_value \/ set_raster[c] = set_value

RECURSIVE FillPushes(_, _, _, _)
\* seeds after the loop over the neighbours n .. nmax of cell c, set being
\* set_raster after cell c was painted
FillPushes(c, n, set, sds) ==
  IF n > nmax(topo) THEN sds
  ELSE LET nx == iToX(width, c) + dx(topo)[n + 1]
           ny == iToY(width, c) + dy(topo)[n + 1]
           ni == xyToI(width, nx, ny)
       IN IF ~inGrid(width, height, nx, ny) THEN FillPushes(c, n + 1, set, sds)
          ELSE IF check_raster[ni] = check_value /\ set[ni] /= set_value
            THEN FillPushes(c, n + 1, set, Append(sds, ni))
            ELSE FillPushes(c, n + 1, set, sds)

\* one iteration of while(!seeds.empty())
FillStep ==
  /\ pc = "fill_loop"
  /\ seeds /= <<>>
  /\ LET c    == seeds[Len(seeds)]
         rest == SubSeq(seeds, 1, Len(seeds) - 1)
     IN IF FillSkips(c)
          THEN /\ seeds' = rest
               /\ set_raster' = set_raster
          ELSE /\ set_raster' = [set_raster EXCEPT ![c] = set_value]
               /\ seeds' = FillPushes(c, 1, set_raster', rest)
  /\ UNCHANGED <<width, height, no_data, pc, flowVars, dsuVars, perimVars>>
  /\ UNCHANGED <<check_raster, set_width, set_height, topo, set_start,
                 seeds_start>>

\* the loop ends on the empty seed list; the return
FillReturn ==
  /\ pc = "fill_loop"
  /\ seeds = <<>>
  /\ pc' = "fill_done"
  /\ UNCHANGED <<width, height, no_data, flowVars, dsuVars, perimVars, fillVars>>

NextBucketFill ==
  \/ BucketFillEnter
  \/ FillStep
  \/ FillReturn

SpecBucketFill == InitBucketFill /\ [][NextBucketFill]_vars

TypeOK ==
  /\ pc \in {"deps", "sources", "prop", "done", "dsu", "perim", "perim_done",
             "fill", "fill_loop", "fill_done", "fill_thrown"}
  /\ pc \in {"deps", "sources", "prop", "done"} =>
       /\ \A i \in Cells(width, height) :
            accum[i] \in (0 .. 65535) \X (0 .. 65535)
       /\ \A i \in Cells(width, height) : deps[i] \in -128 .. 127

----------------------------------------------------------------------------
(* The flow graph of a direction raster, as the properties speak of it     *)

AllCells == Cells(width, height)

Data(i) == ~isNoData(d8_in, no_data, i)

Interior(i) == ~isEdgeCell(width, height, iToX(width, i), iToY(width, i))

\* the cell that cell i routes to: none (no-data, NO_FLOW, off the raster) or one
FlowTarget(i) ==
  IF ~Data(i) \/ d8_in[i] = NO_FLOW THEN {}
  ELSE LET tx == iToX(width, i) + d8x[d8_in[i] + 1]
           ty == iToY(width, i) + d8y[d8_in[i] + 1]
       IN IF inGrid(width, height, tx, ty) THEN {xyToI(width, tx, ty)} ELSE {}

\* the non-no-data cells that route directly into cell c
DirectUpstream(c) == {s \in AllCells : Data(s) /\ FlowTarget(s) = {c}}

RECURSIVE PathLeads(_, _, _)
\* the flow path of cell i reaches cell c within n steps over non-no-data cells
PathLeads(i, c, n) ==
  /\ Data(i)
  /\ \/ i = c
     \/ /\ n > 0
        /\ \E t \in FlowTarget(i) : PathLeads(t, c, n - 1)

\* the non-no-data cells whose flow path leads to cell c, c itself included
Contributors(c) == {i \in AllCells : PathLeads(i, c, size(width, height))}

HasCycle ==
  \E i \in AllCells :
    Data(i) /\ \E t \in FlowTarget(i) : PathLeads(t, i, size(width, height))

Acyclic == ~HasCycle

Returned == pc = "done"

TotalDeq == LET RECURSIVE Sum(_)
                Sum(i) == IF i < 0 THEN 0 ELSE deq[i] + Sum(i - 1)
            IN Sum(size(width, height) - 1)

QueueSet == {q[k] : k \in 1 .. Len(q)}

----------------------------------------------------------------------------
(* C1: for an acyclic raster, the returned accumulation of every           *)
(* non-no-data cell is the number of non-no-data cells whose flow path     *)
(* leads to it, itself included.                                           *)
C1_AccumulationCountsContributors ==
  (Returned /\ Acyclic) =>
    \A c \in AllCells :
      Data(c) => accum[c] = ToUint32(Cardinality(Contributors(c)))

(* C2: a raster with a cycle among its non-no-data cells is never answered *)
(* with an accumulation raster.                                            *)
C2_CycleNeverReturns == HasCycle => ~Returned

(* C3: in the returned raster every no-data cell of the input holds the    *)
(* accumulation raster's own no-data value, ACCUM_NO_DATA as a uint32_t.   *)
C3_NoDataCellsHoldSentinel ==
  Returned =>
    \A i \in AllCells : ~Data(i) => accum[i] = ToUint32(ACCUM_NO_DATA)

(* C4: until the sweep, no-data cells stay outside the dependency graph:    *)
(* no scan of a no-data cell increments a count, no no-data cell is or     *)
(* was on the queue, and the register of a no-data cell is still 0.        *)
C4_NoDataOutsideGraph ==
  pc \in {"deps", "sources", "prop"} =>
    \A i \in AllCells :
      ~Data(i) =>
        /\ i \notin inc_src
        /\ i \notin QueueSet
        /\ enq[i] = 0
        /\ deq[i] = 0
        /\ accum[i] = ToUint32(0)

\* the loop is over, an interior no-data cell was scanned, and a dequeued
\* cell pointed at a no-data interior cell
C4_Witness ==
  /\ pc = "prop"
  /\ q = <<>>
  /\ \E s \in AllCells, t \in AllCells :
       /\ Interior(s) /\ Interior(t)
       /\ Data(s) /\ ~Data(t)
       /\ FlowTarget(s) = {t}
       /\ deq[s] = 1
       /\ deps[t] > 0

\* how many increments of cell i's count the dependency scan has made
IncCount(i) ==
  Cardinality({s \in inc_src :
                 DepsTargets(iToX(width, s), iToY(width, s)) = {i}})

(* C5: on an acyclic raster every count is decremented once for each       *)
(* increment the dependency scan gave it, every non-no-data cell is put on *)
(* the queue exactly once, a queued cell has count zero, and no cell is    *)
(* put on the queue twice.                                                 *)
C5_DecrementedAndEnqueuedOnce ==
  Acyclic =>
    /\ \A i \in AllCells : enq[i] <= 1
    /\ \A i \in QueueSet : deps[i] = 0
    /\ Returned =>
         \A i \in AllCells :
           /\ dec[i] = IncCount(i)
           /\ Data(i) => enq[i] = 1

(* C6: a dequeued cell has all the non-no-data cells that route directly   *)
(* into it dequeued (and so delivered) before it, and its register keeps   *)
(* the value it had right after its own unit was added at the dequeue.     *)
C6_TopologicalOrder ==
  \A c \in AllCells :
    deq[c] >= 1 =>
      /\ \A s \in DirectUpstream(c) : deq[s] >= 1
      /\ accum[c] = at_deq[c]

\* the ready queue has emptied
QueueDrained == (pc = "prop" /\ q = <<>>) \/ pc = "done"

(* C9: when the queue has emptied on an acyclic raster, every non-no-data  *)
(* cell has dependency count zero (a count left over means a cycle).       *)
C9_ResidualCountMeansCycle ==
  (QueueDrained /\ Acyclic) =>
    \A i \in AllCells : Data(i) => deps[i] = 0

\* the 3x3 raster whose 8 border cells route to the NO_FLOW centre cell
IsStarGrid ==
  /\ width = 3
  /\ height = 3
  /\ d8_in[4] = NO_FLOW
  /\ Data(4)
  /\ \A i \in AllCells \ {4} : Data(i) /\ FlowTarget(i) = {4}

(* C10: on the star raster the returned accumulation is 9 for the centre   *)
(* cell and 1 for each border cell.                                        *)
C10_StarSink ==
  (Returned /\ IsStarGrid) =>
    /\ accum[4] = ToUint32(9)
    /\ \A i \in AllCells \ {4} : accum[i] = ToUint32(1)

\* accum and deps once the loop, continued first-in first-out from st, ends
FifoOutcome(st) ==
  LET e == RunFifo(st) IN [accum |-> e.accum, deps |-> e.deps]

(* C7: whatever ready cell the loop takes next, it ends with the accum and *)
(* deps of the first-in first-out run: from every state of a run that      *)
(* takes the ready cells in any order, the outcome is that of the run      *)
(* that took them in queue order from the start.                           *)
C7_OrderIndependent ==
  pc = "prop" =>
    FifoOutcome([accum |-> accum, deps |-> deps, q |-> q])
      = FifoOutcome(prop_start)

\* the loop has taken some cell ahead of the front of the queue, and flow
\* was forwarded
C7_Witness ==
  /\ pc = "prop"
  /\ q /= <<>>
  /\ TotalDeq >= 1
  /\ deq[prop_start.q[1]] = 0
  /\ \E i \in AllCells : dec[i] >= 1

\* a measure of the work left: the phases to come, and in the loop the
\* dequeues the cell count still allows
Variant ==
  CASE pc = "deps"    -> size(width, height) + 3
    [] pc = "sources" -> size(width, height) + 2
    [] pc = "prop"    -> size(width, height) + 1 - TotalDeq
    [] pc = "done"    -> 0

(* C8: on every raster, cyclic or not, the propagation loop ends, and the  *)
(* number of dequeues never exceeds the number of cells: every step, each  *)
(* loop iteration included, lowers a measure that stays at or above zero   *)
(* (and a state before the return always has a next step: a dequeue while  *)
(* q is not empty, the sweep and return once it is).                       *)
C8_Terminates ==
  /\ [](TotalDeq <= size(width, height))
  /\ [](Variant >= 0)
  /\ [][Variant' < Variant]_vars

\* a raster with a cycle was answered, after the loop had dequeued cells
C8_Witness == Returned /\ HasCycle /\ TotalDeq >= 2

----------------------------------------------------------------------------
\* the number of non-no-data cells of the raster
NumData == Cardinality({i \in AllCells : Data(i)})

InteriorUpstream(t) == {s \in DirectUpstream(t) : Interior(s)}

(* C13: right after the dependency scan, the count of every cell t (border *)
(* and no-data cells included) is the number of non-border, non-no-data    *)
(* cells whose direction is not NO_FLOW and points at t; no border cell    *)
(* has caused an increment.                                                *)
C13_DepsAfterScan ==
  pc = "sources" =>
    /\ \A t \in AllCells : deps[t] = Cardinality(InteriorUpstream(t))
    /\ \A s \in inc_src : Interior(s)

\* after the scan a border cell and a no-data cell have a count as targets,
\* and a non-no-data border cell points at an interior cell whose count is 0
C13_Witness ==
  /\ pc = "sources"
  /\ \E t \in AllCells : ~Interior(t) /\ deps[t] >= 1
  /\ \E t \in AllCells : ~Data(t) /\ deps[t] >= 1
  /\ \E s \in AllCells, u \in AllCells :
       /\ ~Interior(s) /\ Data(s) /\ Interior(u)
       /\ FlowTarget(s) = {u}
       /\ deps[u] = 0

(* C19: the two assertions of the propagation loop hold in every state, on *)
(* cyclic rasters too: every cell on the queue, and so every dequeued      *)
(* cell, is a non-no-data cell, and no count is below zero (a count is     *)
(* never decremented more often than the scan incremented it).             *)
C19_AssertionsHold ==
  /\ \A k \in 1 .. Len(q) : Data(q[k])
  /\ \A i \in AllCells : deq[i] >= 1 => Data(i)
  /\ \A i \in AllCells : deps[i] >= 0 /\ (dec[i] > 0 => dec[i] <= IncCount(i))

\* on a raster with a cycle, a count was decremented twice, down to zero, and
\* its cell was then dequeued
C19_Witness ==
  /\ pc = "prop"
  /\ HasCycle
  /\ \E i \in AllCells : dec[i] = 2 /\ deps[i] = 0 /\ deq[i] = 1

RECURSIVE SumAccum(_)
\* the sum, in uint32_t, of the registers of the cells of S
SumAccum(S) ==
  IF S = {} THEN ToUint32(0)
  ELSE LET s == CHOOSE x \in S : TRUE
       IN Add32(accum[s], SumAccum(S \ {s}))

----------------------------------------------------------------------------
(* C14: with only unionSet, findSet and sameSet used, in every state and   *)
(* for all existing ids a and b, sameSet(a, b) returns true exactly when a *)
(* and b are connected by the pairs passed to unionSet so far.             *)
C14_SameSetIffJoined ==
  \A a \in DOMAIN parent, b \in DOMAIN parent :
    LET r == sameSet(parent, a, b)
    IN r.kind = "ok" /\ (r.same <=> ref[a] = ref[b])

\* a call of sameSet has answered false although a pair of ids is joined
C14_Witness ==
  /\ pc = "dsu"
  /\ ret.op = "sameSet"
  /\ ret.kind = "ok"
  /\ ~ret.same
  /\ \E a \in DOMAIN parent, b \in DOMAIN parent : a /= b /\ ref[a] = ref[b]

RECURSIVE Depth(_, _, _)
\* the number of parent links from id n up to its representative
Depth(p, n, fuel) ==
  IF p[n] = n \/ fuel = 0 THEN 0 ELSE 1 + Depth(p, p[n], fuel - 1)

RECURSIVE Pow2(_)
Pow2(k) == IF k = 0 THEN 1 ELSE 2 * Pow2(k - 1)

(* C15: with only unionSet and findSet used, the height of every tree is   *)
(* at most the rank of its root and at most log2 of the number of ids.     *)
C15_HeightWithinRank ==
  \A n \in DOMAIN parent :
    LET d == Depth(parent, n, vsize(parent))
        r == findSet(parent, n).value
    IN /\ d <= rank[r]
       /\ Pow2(d) <= vsize(parent)

(* C16: mergeAintoB(a, b) always makes a a direct child of b: afterwards   *)
(* sameSet(a, b) is true, and when a and b were the representatives of two *)
(* different sets, findSet returns b for every member of both sets.        *)
C16_MergeMakesChild ==
  [][\A a \in NewIds, b \in NewIds :
       CallMergeAintoB(a, b) =>
         LET after     == sameSet(parent', a, b)
             wereRoots == /\ a \in DOMAIN parent /\ b \in DOMAIN parent
                          /\ a /= b
                          /\ parent[a] = a /\ parent[b] = b
         IN /\ parent'[a] = b
            /\ after.kind = "ok"
            /\ after.same
            /\ wereRoots =>
                 \A m \in DOMAIN parent :
                   findSet(parent, m).value \in {a, b} =>
                     findSet(parent', m).value = b]_vars

----------------------------------------------------------------------------
\* the non-no-data cells of arr with one of their 8 neighbours off the raster
\* or no-data
BorderingCells ==
  {i \in Cells(width, height) :
     /\ ~isNoData(arr, no_data, i)
     /\ \E n \in 1 .. 8 :
          LET nx == iToX(width, i) + d8x[n + 1]
              ny == iToY(width, i) + d8y[n + 1]
          IN \/ ~inGrid(width, height, nx, ny)
             \/ isNoData(arr, no_data, xyToI(width, nx, ny))}

(* C17: Perimeter(arr, CELL_COUNT) returns the number of non-no-data cells *)
(* of arr that have one of their 8 neighbours off the raster or no-data.   *)
C17_CellCountPerimeter ==
  (pc = "perim_done" /\ perim_type = "CELL_COUNT") =>
    PerimeterResult = Cardinality(BorderingCells)

\* the cells of check_raster that can be painted: they hold check_value and
\* did not hold set_value in set_raster at the call
Paintable == {i \in Cells(width, height) :
                check_raster[i] = check_value /\ set_start[i] /= set_value}

\* the cells adjacent to cell i in the topology
Adjacent(i) ==
  {j \in Cells(width, height) :
     \E n \in 1 .. nmax(topo) :
       /\ iToX(width, j) = iToX(width, i) + dx(topo)[n + 1]
       /\ iToY(width, j) = iToY(width, i) + dy(topo)[n + 1]}

RECURSIVE Grow(_)
\* the paintable cells reachable from the set R through paintable cells
Grow(R) ==
  LET more == {j \in Paintable \ R : \E i \in R : j \in Adjacent(i)}
  IN IF more = {} THEN R ELSE Grow(R \cup more)

\* the cells reachable from some seed through adjacent paintable cells
Reached ==
  Grow({seeds_start[k] : k \in 1 .. Len(seeds_start)} \cap Paintable)

\* what is left to do: the cells not yet holding set_value, each worth more
\* than the seeds its painting can add, and the seeds still listed
FillVariant ==
  CASE pc = "fill"        -> 9 * size(width, height) + MaxSeeds + 3
    [] pc = "fill_loop"   ->
         9 * Cardinality({i \in DOMAIN set_raster : set_raster[i] /= set_value})
           + Len(seeds) + 1
    [] pc = "fill_done"   -> 0
    [] pc = "fill_thrown" -> 0
    [] OTHER              -> 0

(* C18: BucketFill on rasters of equal dimensions terminates with seeds    *)
(* empty, having changed to set_value exactly the cells reachable from     *)
(* some seed through adjacent cells that hold check_value and did not hold *)
(* set_value, and nothing else; on rasters of different dimensions it      *)
(* throws with nothing changed.                                            *)
C18_BucketFill ==
  /\ [](pc = "fill_done" =>
          /\ seeds = <<>>
          /\ \A i \in Cells(width, height) :
               set_raster[i] = IF i \in Reached THEN set_value ELSE set_start[i])
  /\ [](pc = "fill_thrown" =>
          /\ width /= set_width \/ height /= set_height
          /\ set_raster = set_start
          /\ seeds = seeds_start)
  /\ [](pc = "fill_loop" => width = set_width /\ height = set_height)
  /\ [](FillVariant >= 0)
  /\ [][FillVariant' < FillVariant]_vars

\* a fill from two seeds has returned that painted a cell two steps from its
\* seeds, on a raster with a cell that passes the check but held set_value
C18_Witness ==
  /\ pc = "fill_done"
  /\ Len(seeds_start) = 2
  /\ \E i \in Reached :
       \A k \in 1 .. 2 : i /= seeds_start[k] /\ i \notin Adjacent(seeds_start[k])
  /\ \E i \in Cells(width, height) :
       check_raster[i] = check_value /\ set_start[i] = set_value

----------------------------------------------------------------------------
\* some non-no-data cell holds a value that is no direction code
HasInvalidCode ==
  \E i \in AllCells : Data(i) /\ d8_in[i] \notin 0 .. 8

(* C12: a raster with a direction code outside the valid domain in some    *)
(* non-no-data cell is never answered, and no dependency count and no      *)
(* accumulation register is modified on it.                                *)
C12_InvalidCodeRejected ==
  (pc \in {"deps", "sources", "prop", "done"} /\ HasInvalidCode) =>
    /\ ~Returned
    /\ \A i \in AllCells : deps[i] = 0 /\ accum[i] = ToUint32(0)

----------------------------------------------------------------------------
----------------------------------------------------------------------------
RECURSIVE RepOf(_, _, _)
\* the id that is its own parent at the end of the parent chain of id m, or
\* -1 when the chain does not reach one within fuel links
RepOf(p, m, fuel) ==
  IF p[m] = m THEN m
  ELSE IF fuel = 0 THEN -1
  ELSE RepOf(p, p[m], fuel - 1)

\* the representative of id m under the parent vector p (-1: there is none)
Rep(p, m) == RepOf(p, m, vsize(p))

(* C22: in every state reachable by the public operations, the parent      *)
(* pointers form a forest: the parent chain of every existing id reaches   *)
(* an id that is its own parent, so findSet returns for every existing id. *)
C22_ParentsFormForest ==
  \A n \in DOMAIN parent :
    /\ Rep(parent, n) /= -1
    /\ findSet(parent, n).kind = "ok"

\* the call changed neither the number of sets nor any id's representative
SetsUnchanged ==
  /\ DOMAIN parent' = DOMAIN parent
  /\ DOMAIN rank' = DOMAIN rank
  /\ \A m \in DOMAIN parent : Rep(parent', m) = Rep(parent, m)

\* the call created the ids that did not exist, up to the highest of them,
\* each its own parent with no children, apart from a and b themselves, and
\* left the ids that existed, apart from a and b, as they were
CreatedAsSingletons(a, b, highest) ==
  /\ DOMAIN parent' = DOMAIN parent \cup (0 .. highest)
  /\ DOMAIN rank' = DOMAIN parent'
  /\ \A i \in DOMAIN parent' \ (DOMAIN parent \cup {a, b}) :
       parent'[i] = i /\ rank'[i] = 0
  /\ \A i \in DOMAIN parent \ {a, b} :
       parent'[i] = parent[i] /\ rank'[i] = rank[i]

(* C23: findSet, sameSet and unionSet called with an id that does not      *)
(* exist end in a runtime_error and leave the number of sets and every     *)
(* id's set unchanged (none of the three ever creates a set); makeSet and  *)
(* mergeAintoB create the missing ids up to the new one as singletons that *)
(* are their own parents, and do not change the other existing sets.       *)
C23_MissingIdsRaise ==
  [][/\ \A n \in Ids :
          CallFindSet(n) =>
            /\ DOMAIN parent' = DOMAIN parent
            /\ n \notin DOMAIN parent =>
                 ret'.kind = "runtime_error" /\ SetsUnchanged
     /\ \A a \in Ids, b \in Ids :
          (CallUnionSet(a, b) \/ CallSameSet(a, b)) =>
            /\ DOMAIN parent' = DOMAIN parent
            /\ (a \notin DOMAIN parent \/ b \notin DOMAIN parent) =>
                 ret'.kind = "runtime_error" /\ SetsUnchanged
     /\ \A n \in NewIds :
          CallMakeSet(n) =>
            /\ CreatedAsSingletons(n, n, n)
            /\ n \notin DOMAIN parent => parent'[n] = n /\ rank'[n] = 0
            /\ n \in DOMAIN parent => parent' = parent /\ rank' = rank
     /\ \A a \in NewIds, b \in NewIds :
          CallMergeAintoB(a, b) =>
            CreatedAsSingletons(a, b, IF a > b THEN a ELSE b)]_vars

----------------------------------------------------------------------------
RECURSIVE ChainOf(_, _, _)
\* the ids on the parent chain of id n, from n to its end
ChainOf(p, n, fuel) ==
  {n} \cup (IF p[n] = n \/ fuel = 0 THEN {} ELSE ChainOf(p, p[n], fuel - 1))

(* C24: findSet(n) changes no set: every existing id has the same          *)
(* representative before and after the call; when the call returns, every  *)
(* id on the former parent chain of n points directly at the               *)
(* representative, the parents of the ids off that chain and all ranks are *)
(* unchanged, and findSet of the returned id returns that id.              *)
C24_CompressionKeepsSets ==
  [][\A n \in Ids :
       CallFindSet(n) =>
         /\ SetsUnchanged
         /\ rank' = rank
         /\ ret'.kind /= "ok" => parent' = parent
         /\ ret'.kind = "ok" =>
              LET chain == ChainOf(parent, n, vsize(parent))
              IN /\ ret'.id = Rep(parent, n)
                 /\ \A m \in chain : parent'[m] = ret'.id
                 /\ \A m \in DOMAIN parent \ chain : parent'[m] = parent[m]
                 /\ findSet(parent', ret'.id).value = ret'.id
                 /\ findSet(parent', ret'.id).parent = parent']_vars

\* findSet has returned, and an id that had a child when the structure was
\* built (its rank was raised) has none now: the child points at the
\* representative, as the id itself does
C24_Witness ==
  /\ pc = "dsu"
  /\ ret.op = "findSet"
  /\ ret.kind = "ok"
  /\ \E m \in DOMAIN parent :
       /\ rank[m] >= 1
       /\ parent[m] /= m
       /\ parent[m] = ret.id
       /\ \A i \in DOMAIN parent : parent[i] /= m
       /\ \E i \in DOMAIN parent \ {m, ret.id} : parent[i] = ret.id

====
